---- MODULE Spec2Model ----
(***************************************************************************)
(* A model of leonidas-bot: the display chunker (src/utils.rs), the        *)
(* prompt builders (src/prompts.rs), the token counter (src/openai.rs,     *)
(* src/youtube.rs) and the summary request with its chat retry             *)
(* (src/youtube.rs), and the handler that answers the summary requests of  *)
(* one message (src/main.rs).                                              *)
(*                                                                         *)
(* A text is a sequence of characters, each a one-character string.        *)
(***************************************************************************)
EXTENDS Integers, Sequences, FiniteSets, TLC

VARIABLES
    \* break_text_into_chunks
    s,                          \* the text handed to the chunker
    max_characters_per_chunk,   \* its budget
    chunks,                     \* what it returned
    cpc,                        \* "idle" | "ready" | "done"
    \* get_video_summary: one summary request
    youtube_token,              \* env YOUTUBE_API_TOKEN is set
    openai_token,               \* env OPENAI_API_TOKEN is set
    pc,                         \* where the request stands
    info,                       \* what get_video_info returned
    transcript,                 \* what get_transcript returned
    prompt_tokens,              \* tokens the tokenizer counts in the request
    chat_api_request,           \* the ChatApiRequest summarize built
    events,                     \* fetches, chat attempts and sleeps, in order
    result,                     \* what get_video_summary returned
    \* summarize_videos: the summary requests of one message
    video_ids,                  \* the video ids found in the message
    returned,                   \* what get_video_summary returned, per video
    sent,                       \* the messages sent to the channel, in order
    \* prompts::clean_transcript
    arg_raw_transcript,         \* its arguments
    arg_title,
    arg_channel_name,
    framing_tokens,             \* the tokenizer: tokens of a prompt without words
    tokens_per_word,            \* the tokenizer: tokens of each transcript word
    used_estimate,              \* the chat_tokens the partition was computed from
    clean_result,               \* what clean_transcript returned
    qpc                         \* "idle" | "ready" | "done" | "done_any"

chunk_vars == <<s, max_characters_per_chunk, chunks, cpc>>

reply_vars == <<video_ids, returned, sent>>

summary_vars == <<youtube_token, openai_token, pc, info, transcript,
                  prompt_tokens, chat_api_request, events, result, reply_vars>>

clean_vars == <<arg_raw_transcript, arg_title, arg_channel_name,
                framing_tokens, tokens_per_word, used_estimate, clean_result,
                qpc>>

vars == <<chunk_vars, summary_vars, clean_vars>>

\* ------------------------------------------------------------------ bounds

\* Longest text handed to the chunker.
MaxTextLen == 6

\* Largest chunk budget tried.
MaxBudget == 4

\* ------------------------------------------------------------- text helpers

NL == "\n"

SP == " "

\* char::is_whitespace, on the characters the model uses
IsWhitespace(c) == c \in {SP, NL, "\t"}

Min(S) == CHOOSE x \in S : \A y \in S : x <= y

Max(S) == CHOOSE x \in S : \A y \in S : x >= y

\* str::trim: leading and trailing whitespace removed
Trim(t) ==
    LET keep == {i \in 1..Len(t) : ~IsWhitespace(t[i])}
    IN  IF keep = {} THEN <<>> ELSE SubSeq(t, Min(keep), Max(keep))

\* str::split(sep) for a one-character separator: always at least one piece,
\* empty pieces kept
RECURSIVE Split(_, _)
Split(t, sep) ==
    LET at == {i \in 1..Len(t) : t[i] = sep}
    IN  IF at = {} THEN <<t>>
        ELSE <<SubSeq(t, 1, Min(at) - 1)>>
                 \o Split(SubSeq(t, Min(at) + 1, Len(t)), sep)

\* [T]::join(sep) / Iterator::intersperse(sep) followed by concatenation
RECURSIVE Join(_, _)
Join(parts, sep) ==
    IF parts = <<>> THEN <<>>
    ELSE IF Len(parts) = 1 THEN parts[1]
    ELSE parts[1] \o sep \o Join(Tail(parts), sep)

\* Iterator::intersperse
RECURSIVE Intersperse(_, _)
Intersperse(parts, sep) ==
    IF Len(parts) <= 1 THEN parts
    ELSE <<parts[1], sep>> \o Intersperse(Tail(parts), sep)

RECURSIVE Concat(_)
Concat(parts) ==
    IF parts = <<>> THEN <<>> ELSE Head(parts) \o Concat(Tail(parts))

\* ------------------------------------------------- break_text_into_chunks

\* utils.rs:5-8: split on "\n", trim each paragraph, intersperse "\n\n"
Paragraphs(t) ==
    LET lines == Split(t, NL)
    IN  Intersperse([i \in 1..Len(lines) |-> Trim(lines[i])], <<NL, NL>>)

\* utils.rs:9-15 cutting a paragraph over the budget down to the budget
RECURSIVE FlatMapTruncating(_, _)
FlatMapTruncating(paragraphs, max) ==
    IF paragraphs = <<>> THEN <<>>
    ELSE (IF Len(Head(paragraphs)) <= max
          THEN <<Head(paragraphs)>>
          ELSE <<SubSeq(Head(paragraphs), 1, max)>>)
         \o FlatMapTruncating(Tail(paragraphs), max)

\* utils.rs:9-15: a paragraph over the budget is replaced by its words
RECURSIVE FlatMapWords(_, _)
FlatMapWords(paragraphs, max) ==
    IF paragraphs = <<>> THEN <<>>
    ELSE (IF Len(Head(paragraphs)) <= max
          THEN <<Head(paragraphs)>>
          ELSE Split(Head(paragraphs), SP))
         \o FlatMapWords(Tail(paragraphs), max)

\* utils.rs:20-21 with the comparison off by one
ChunkIsFullLate(current_chunk, paragraph, max) ==
    /\ current_chunk # <<>>
    /\ Len(current_chunk) + Len(paragraph) > max + 1

\* utils.rs:20-21 closing the chunk already when the paragraph fills it exactly
ChunkIsFullEarly(current_chunk, paragraph, max) ==
    /\ current_chunk # <<>>
    /\ Len(current_chunk) + Len(paragraph) >= max

\* utils.rs:20-21: the current chunk cannot take the paragraph
ChunkIsFull(current_chunk, paragraph, max) ==
    /\ current_chunk # <<>>
    /\ Len(current_chunk) + Len(paragraph) > max

\* utils.rs:18-30: the accumulation loop and the final push
RECURSIVE Accumulate(_, _, _, _)
Accumulate(paragraphs, done, current_chunk, max) ==
    IF paragraphs = <<>> THEN Append(done, current_chunk)
    ELSE LET paragraph == Head(paragraphs)
             full == ChunkIsFull(current_chunk, paragraph, max)
         IN  Accumulate(Tail(paragraphs),
                        IF full THEN Append(done, Trim(current_chunk)) ELSE done,
                        (IF full THEN <<>> ELSE current_chunk) \o paragraph,
                        max)

\* utils.rs:34-37: Regex \n{3,} replaced by "\n\n"
RECURSIVE CollapseNewlines(_)
CollapseNewlines(t) ==
    IF t = <<>> THEN <<>>
    ELSE IF Head(t) # NL THEN <<Head(t)>> \o CollapseNewlines(Tail(t))
    ELSE LET other == {i \in 1..Len(t) : t[i] # NL}
             run == IF other = {} THEN Len(t) ELSE Min(other) - 1
         IN  (IF run >= 3 THEN <<NL, NL>> ELSE SubSeq(t, 1, run))
                 \o CollapseNewlines(SubSeq(t, run + 1, Len(t)))

\* utils.rs:1-42
break_text_into_chunks(t, max) ==
    LET paragraphs == FlatMapWords(Paragraphs(t), max)
        raw == Accumulate(paragraphs, <<>>, <<>>, max)
    IN  [i \in 1..Len(raw) |-> CollapseNewlines(raw[i])]

\* ---------------------------------------------------------- chunker harness

Alphabet == {"a", "b", SP, NL}

RECURSIVE TextsOfLen(_)
TextsOfLen(n) ==
    IF n = 0 THEN {<<>>}
    ELSE {Append(t, c) : t \in TextsOfLen(n - 1), c \in Alphabet}

Texts == UNION {TextsOfLen(n) : n \in 0..MaxTextLen}

\* Option::None / a Result not there yet
None == [tag |-> "None", val |-> <<>>]

Ok(v) == [tag |-> "Ok", val |-> v]

Err(e) == [tag |-> "Err", val |-> e]

\* no summary request in this run
IdleSummary ==
    /\ youtube_token = FALSE
    /\ openai_token = FALSE
    /\ pc = "idle"
    /\ info = None
    /\ transcript = None
    /\ prompt_tokens = 0
    /\ chat_api_request = None
    /\ events = <<>>
    /\ result = None
    /\ video_ids = <<>>
    /\ returned = <<>>
    /\ sent = <<>>

\* no call of clean_transcript in this run
IdleClean ==
    /\ arg_raw_transcript = <<>>
    /\ arg_title = None
    /\ arg_channel_name = None
    /\ framing_tokens = 0
    /\ tokens_per_word = 0
    /\ used_estimate = 0
    /\ clean_result = None
    /\ qpc = "idle"

InitChunk ==
    /\ s \in Texts
    /\ max_characters_per_chunk \in 0..MaxBudget
    /\ chunks = <<>>
    /\ cpc = "ready"
    /\ IdleSummary
    /\ IdleClean

\* one call of break_text_into_chunks
BreakText ==
    /\ cpc = "ready"
    /\ chunks' = break_text_into_chunks(s, max_characters_per_chunk)
    /\ cpc' = "done"
    /\ UNCHANGED <<s, max_characters_per_chunk, summary_vars, clean_vars>>

NextChunk == BreakText

SpecChunk == InitChunk /\ [][NextChunk]_vars

\* ------------------------------------------------------------ token counter

\* tiktoken_rs::get_context_size("gpt-4"), the context window of the model named
\* at youtube.rs:141 and openai.rs:40
ContextSize == 8192

\* youtube.rs:131-142, openai.rs:30-41: count_tokens returns
\* tiktoken_rs::get_chat_completion_max_tokens("gpt-4", messages), which is the
\* context size of the model minus the tokens of the messages
\* (context_size.saturating_sub(num_tokens_from_messages)): the tokens left for
\* the completion, not the tokens of the messages. num_tokens is what the
\* tokenizer counts in the messages.
count_tokens(num_tokens) ==
    IF num_tokens >= ContextSize THEN 0 ELSE ContextSize - num_tokens

\* ------------------------------------------------- one summary request

\* youtube.rs:171: Duration::from_secs(60)
BackoffSecs == 60

\* youtube.rs:231-232: the longest summary passed on whole, and what is kept of
\* a longer one
ClipLimit == 4096

ClipKeep == 4093

\* youtube.rs:182: the divisor and the floor of the goal length
GoalDivisor == 50

GoalFloor == 550

\* youtube.rs:183: the goal length at or under which the transcript is too short
GoalTooShort == 10

\* youtube.rs:206, 211: the token thresholds of the model choice
TooLongTokens == 13000

Gpt4Tokens == 3000

\* a transcript of n words, as get_transcript joins the caption items
\* (youtube.rs:104-108); "w" stands for any text without a space
MakeTranscript(n) ==
    [i \in 1..(2 * n - 1) |-> IF i % 2 = 1 THEN "w" ELSE SP]

\* the word counts of the transcripts a fetch may return
TranscriptWordCounts == {50, 200, 201, 260}

\* what the tokenizer may count in the request built around a transcript
PromptTokenCounts == {2999, 3000, 5192, 5193, 13000, 13001}

Titles == {<<"T">>}

Channels == {<<"C">>}

Summaries == {<<"o", "k">>, <<"f", "i", "n", "e", ".">>}

\* reqwest's errors as strings (youtube.rs:100, 101, 157, 159, 223)
SendError == <<"error sending request">>

DecodeError == <<"error decoding response body">>

\* TranscriptResponse::Error { message } (youtube.rs:109-112)
TranscriptMessage == <<"Could not retrieve a transcript">>

NoChoices == <<"No choices in response">>

Event(kind, request, outcome, secs) ==
    [kind |-> kind, request |-> request, outcome |-> outcome, secs |-> secs]

InitSummary ==
    /\ youtube_token \in BOOLEAN
    /\ openai_token \in BOOLEAN
    /\ pc = "get_video_info"
    /\ info = None
    /\ transcript = None
    /\ prompt_tokens = 0
    /\ chat_api_request = None
    /\ events = <<>>
    /\ result = None
    /\ video_ids = <<>>
    /\ returned = <<>>
    /\ sent = <<>>
    /\ s = <<>>
    /\ max_characters_per_chunk = 0
    /\ chunks = <<>>
    /\ cpc = "idle"
    /\ IdleClean

\* youtube.rs:223: get_video_info(video_id).await.map_err(|e| e.to_string())?
\* (get_video_info: youtube.rs:116-129)
GetVideoInfo ==
    /\ pc = "get_video_info"
    /\ UNCHANGED <<chunk_vars, clean_vars, reply_vars, youtube_token, openai_token,
                   transcript,
                   prompt_tokens, chat_api_request>>
    /\ \/ \* youtube.rs:120: youtube_token().unwrap() on None
          /\ ~youtube_token
          /\ pc' = "panicked"
          /\ UNCHANGED <<info, events, result>>
       \/ \* youtube.rs:122-123: the request or the decoding fails
          /\ youtube_token
          /\ \E e \in {SendError, DecodeError} :
                /\ info' = Err(e)
                /\ result' = Err(e)
          /\ events' = Append(events, Event("get_video_info", None, None, 0))
          /\ pc' = "done"
       \/ \* youtube.rs:124: items[0] of an empty list
          /\ youtube_token
          /\ events' = Append(events, Event("get_video_info", None, None, 0))
          /\ pc' = "panicked"
          /\ UNCHANGED <<info, result>>
       \/ \* youtube.rs:125-128
          /\ youtube_token
          /\ \E title \in Titles, channel_name \in Channels :
                info' = Ok([title |-> title, channel_name |-> channel_name])
          /\ events' = Append(events, Event("get_video_info", None, None, 0))
          /\ pc' = "get_transcript"
          /\ UNCHANGED result

\* youtube.rs:224: get_transcript(video_id).await? (get_transcript:
\* youtube.rs:95-114)
GetTranscript ==
    /\ pc = "get_transcript"
    /\ UNCHANGED <<chunk_vars, clean_vars, reply_vars, youtube_token, openai_token,
                   info,
                   prompt_tokens, chat_api_request>>
    /\ events' = Append(events, Event("get_transcript", None, None, 0))
    /\ \/ \* youtube.rs:100, 101, 109-112
          /\ \E e \in {SendError, DecodeError, TranscriptMessage} :
                /\ transcript' = Err(e)
                /\ result' = Err(e)
          /\ pc' = "done"
       \/ \* youtube.rs:104-108
          /\ \E n \in TranscriptWordCounts :
                transcript' = Ok(MakeTranscript(n))
          /\ pc' = "summarize"
          /\ UNCHANGED result

Some(v) == [tag |-> "Some", val |-> v]

\* youtube.rs:182
goal_length(raw_transcript) ==
    Max({Len(raw_transcript) \div GoalDivisor, GoalFloor})

\* youtube.rs:198, prompts.rs:27, 54: the title line, when there is a title
TitleLine(title) ==
    IF title.tag = "Some" THEN <<"Title: ">> \o title.val ELSE <<>>

\* youtube.rs:199, prompts.rs:28, 55: the channel line, when there is a channel
ChannelLine(channel_name) ==
    IF channel_name.tag = "Some"
    THEN <<"\nChannel: ">> \o channel_name.val ELSE <<>>

\* youtube.rs:187-203: the system and the user message of a summary request;
\* the fixed wording of each is one element
SummarizeMessages(raw_transcript, title, channel_name) ==
    LET goal == <<ToString(goal_length(raw_transcript))>>
        the_speaker == IF channel_name.tag = "Some"
                       THEN channel_name.val ELSE <<"the speaker">>
    IN  << [role |-> "system",
            content |-> <<"You are a summarization assistant. [...] about ">>
                            \o goal \o <<" words.">>],
           [role |-> "user",
            content |-> TitleLine(title) \o ChannelLine(channel_name)
                            \o <<"\n\nTranscript: ">> \o raw_transcript
                            \o <<"\n\n\nBe as concise as possible [...] like '">>
                            \o the_speaker
                            \o <<" says'. [...] should be about ">>
                            \o goal \o <<" words.">>] >>

\* youtube.rs:206-215: the model for a request, or None when it is refused
SelectModel(chat_tokens) ==
    IF chat_tokens > TooLongTokens THEN None
    ELSE IF chat_tokens < Gpt4Tokens THEN Some("gpt-4")
    ELSE Some("gpt-3.5-turbo-16k")

TooShortError(goal) ==
    <<"Transcript too short to summarize. (Summary goal length would have been ",
      ToString(goal), " words)">>

TooLongError(chat_tokens) ==
    <<"Transcript too long to summarize. (", ToString(chat_tokens), " tokens)">>

\* youtube.rs:177-217: summarize up to the call of chat. The tokenizer's count of
\* the request is an input of the step.
Summarize ==
    /\ pc = "summarize"
    /\ UNCHANGED <<chunk_vars, clean_vars, reply_vars, youtube_token, openai_token,
                   info, transcript,
                   events>>
    /\ \E num_tokens \in PromptTokenCounts :
        LET raw_transcript == transcript.val
            goal == goal_length(raw_transcript)
            messages == SummarizeMessages(raw_transcript,
                                          Some(info.val.title),
                                          Some(info.val.channel_name))
            chat_tokens == count_tokens(num_tokens)
            model == SelectModel(chat_tokens)
        IN  /\ prompt_tokens' = num_tokens
            /\ IF goal <= GoalTooShort
               THEN /\ result' = Err(TooShortError(goal))
                    /\ pc' = "done"
                    /\ UNCHANGED chat_api_request
               ELSE IF model = None
               THEN /\ result' = Err(TooLongError(chat_tokens))
                    /\ pc' = "done"
                    /\ UNCHANGED chat_api_request
               ELSE /\ chat_api_request' =
                            Some([model |-> model.val, messages |-> messages])
                    /\ pc' = "chat_first"
                    /\ UNCHANGED result

\* youtube.rs:145-166: what one chat_once may return
ChatOnceOutcomes ==
    {Ok(summary) : summary \in Summaries}
        \cup {Err(e) : e \in {SendError, DecodeError, NoChoices}}

\* youtube.rs:231-235
ClipSummary(summary) ==
    IF Len(summary) > ClipLimit
    THEN SubSeq(summary, 1, ClipKeep) \o <<".", ".", ".">>
    ELSE summary

\* youtube.rs:219, 225-236: what get_video_summary returns once chat returned
SummaryReturn(chat_result) ==
    IF chat_result.tag = "Ok"
    THEN Ok(<<ClipSummary(chat_result.val), info.val>>)
    ELSE chat_result

\* youtube.rs:167-173 handing back the error of the first attempt
ChatReturnFirstError(first, second) ==
    IF second.tag = "Err" THEN first ELSE second

\* youtube.rs:167-173: after a failed first attempt chat returns whatever the
\* second chat_once returns
ChatReturn(first, second) == second

ChatAttempts == SelectSeq(events, LAMBDA e : e.kind = "chat_once")

\* youtube.rs:167: the first chat_once
ChatFirst ==
    /\ pc = "chat_first"
    /\ UNCHANGED <<chunk_vars, clean_vars, reply_vars, youtube_token, openai_token,
                   info, transcript,
                   prompt_tokens, chat_api_request>>
    /\ \/ \* youtube.rs:152: openai_token().unwrap() on None
          /\ ~openai_token
          /\ pc' = "panicked"
          /\ UNCHANGED <<events, result>>
       \/ /\ openai_token
          /\ \E outcome \in ChatOnceOutcomes :
                /\ events' = Append(events,
                        Event("chat_once", chat_api_request.val, outcome, 0))
                /\ IF outcome.tag = "Ok"
                   THEN /\ result' = SummaryReturn(outcome)
                        /\ pc' = "done"
                   ELSE /\ pc' = "sleep"
                        /\ UNCHANGED result

\* youtube.rs:170-172 retrying at once, without the sleep
SleepSkipped ==
    /\ pc = "sleep"
    /\ pc' = "chat_retry"
    /\ UNCHANGED <<chunk_vars, clean_vars, reply_vars, youtube_token,
                   openai_token, info, transcript, prompt_tokens,
                   chat_api_request, events, result>>

\* youtube.rs:171: tokio::time::sleep(Duration::from_secs(60))
Sleep ==
    /\ pc = "sleep"
    /\ events' = Append(events, Event("sleep", None, None, BackoffSecs))
    /\ pc' = "chat_retry"
    /\ UNCHANGED <<chunk_vars, clean_vars, reply_vars, youtube_token, openai_token,
                   info, transcript,
                   prompt_tokens, chat_api_request, result>>

\* youtube.rs:172: the second chat_once, whose result chat returns
ChatRetry ==
    /\ pc = "chat_retry"
    /\ openai_token
    /\ UNCHANGED <<chunk_vars, clean_vars, reply_vars, youtube_token, openai_token,
                   info, transcript,
                   prompt_tokens, chat_api_request>>
    /\ \E outcome \in ChatOnceOutcomes :
        /\ events' = Append(events,
                Event("chat_once", chat_api_request.val, outcome, 0))
        /\ result' = SummaryReturn(ChatReturn(ChatAttempts[1].outcome, outcome))
        /\ pc' = "done"

Next ==
    \/ GetVideoInfo
    \/ GetTranscript
    \/ Summarize
    \/ ChatFirst
    \/ Sleep
    \/ ChatRetry

Spec == InitSummary /\ [][Next]_vars

\* ------------------------------------- summarize_videos: one message

\* main.rs:115: break_text_into_chunks(content, 4096)
DescriptionLimit == 4096

\* main.rs:100-107, 136: the ids of the videos linked in a message
VideoIdLists == {<<>>, <<"a">>, <<"a", "b">>}

\* main.rs:137: the place in video_ids of the video the loop is at
Current == Len(returned) + 1

\* a message handed to the channel for the request at place request of
\* video_ids; delivered is whether the send succeeded (main.rs:129, 145)
Message(request, kind, title, text, footer, delivered) ==
    [request |-> request, kind |-> kind, title |-> title, text |-> text,
     footer |-> footer, delivered |-> delivered]

\* main.rs:146: format!("Summary error: {why:?}"); the Debug form of a String is
\* the string in double quotes
SummaryError(why) == <<"Summary error: ", "\"">> \o why \o <<"\"">>

\* main.rs:118-122
Part(index, num_chunks) ==
    IF num_chunks # 1
    THEN <<" (part ", ToString(index), "/", ToString(num_chunks), ")">>
    ELSE <<>>

\* main.rs:137, 153-154: the loop goes on to the next video id, or ends
NextVideo ==
    /\ returned' = Append(returned, result)
    /\ pc' = IF Current < Len(video_ids) THEN "get_video_info" ELSE "finished"
    /\ info' = None
    /\ transcript' = None
    /\ prompt_tokens' = 0
    /\ chat_api_request' = None
    /\ events' = <<>>
    /\ result' = None
    /\ UNCHANGED <<chunk_vars, clean_vars, youtube_token, openai_token,
                   video_ids>>

InitVideos ==
    /\ youtube_token \in BOOLEAN
    /\ openai_token \in BOOLEAN
    /\ video_ids \in VideoIdLists
    /\ pc = IF video_ids = <<>> THEN "finished" ELSE "get_video_info"
    /\ info = None
    /\ transcript = None
    /\ prompt_tokens = 0
    /\ chat_api_request = None
    /\ events = <<>>
    /\ result = None
    /\ returned = <<>>
    /\ sent = <<>>
    /\ s = <<>>
    /\ max_characters_per_chunk = 0
    /\ chunks = <<>>
    /\ cpc = "idle"
    /\ IdleClean

\* main.rs:140-142, 109-133: the summary is sent as one embed per chunk; a send
\* that fails is printed (main.rs:129-131)
SendVideoDescription ==
    /\ pc = "done"
    /\ result.tag = "Ok"
    /\ LET content == result.val[1]
           video_info == result.val[2]
           summary_chunks == break_text_into_chunks(content, DescriptionLimit)
           num_chunks == Len(summary_chunks)
       IN  \E delivered \in [1..num_chunks -> BOOLEAN] :
              sent' = sent \o
                  [index \in 1..num_chunks |->
                      Message(Current, "embed",
                              video_info.title \o Part(index, num_chunks),
                              summary_chunks[index],
                              video_info.channel_name,
                              delivered[index])]
    /\ NextVideo

\* main.rs:143-151: the error is said in the channel; a send that fails is
\* printed (main.rs:148-150)
SayError ==
    /\ pc = "done"
    /\ result.tag = "Err"
    /\ \E delivered \in BOOLEAN :
          sent' = Append(sent, Message(Current, "say", <<>>,
                                       SummaryError(result.val), <<>>,
                                       delivered))
    /\ NextVideo

NextVideos ==
    \/ GetVideoInfo
    \/ GetTranscript
    \/ Summarize
    \/ ChatFirst
    \/ Sleep
    \/ ChatRetry
    \/ SendVideoDescription
    \/ SayError

SpecVideos == InitVideos /\ [][NextVideos]_vars

\* ------------------------------------------------ prompts::clean_transcript

\* prompts.rs:76
MAX_TOKENS_PER_INVOCATION == 50000

\* prompts.rs:69: transcripts of this many words or fewer are refused
MinCleanWords == 20

\* Most words of a transcript handed to clean_transcript.
MaxCleanWords == 24

\* prompts.rs:53: the fixed wording before and after the transcript, one element
\* each
TranscriptMarker == "\n\nTranscript: "

CleanInstructions == "\n\n\nClean up the transcript above, [...]"

\* prompts.rs:39-59
clean_transcript_one_prompt(raw_transcript, title, channel_name) ==
    << [role |-> "system",
        content |-> <<"You are a transcription assistant. [...]">>],
       [role |-> "user",
        content |-> TitleLine(title) \o ChannelLine(channel_name)
                        \o <<TranscriptMarker>> \o raw_transcript
                        \o <<CleanInstructions>>] >>

\* the transcript text inside the user message of a clean-up prompt
TranscriptOf(messages) ==
    LET content == messages[2].content
        start == Min({i \in 1..Len(content) : content[i] = TranscriptMarker})
    IN  SubSeq(content, start + 1, Len(content) - 1)

\* the tokenizer (tiktoken_rs::num_tokens_from_messages) on a clean-up prompt:
\* framing_tokens for the wording, the title and the channel, and
\* tokens_per_word for each space-separated word of the transcript in it
NumTokens(messages) ==
    framing_tokens + tokens_per_word * Len(Split(TranscriptOf(messages), SP))

\* slice::chunks_exact: a last, shorter group is left out
RECURSIVE ChunksExact(_, _)
ChunksExact(words, chunk_size) ==
    IF Len(words) < chunk_size THEN <<>>
    ELSE <<SubSeq(words, 1, chunk_size)>>
             \o ChunksExact(SubSeq(words, chunk_size + 1, Len(words)), chunk_size)

\* prompts.rs:85: slice::chunks(chunk_size): groups of chunk_size elements, the
\* last one shorter when the length is no multiple
RECURSIVE Chunks(_, _)
Chunks(words, chunk_size) ==
    IF words = <<>> THEN <<>>
    ELSE IF Len(words) <= chunk_size THEN <<words>>
    ELSE <<SubSeq(words, 1, chunk_size)>>
             \o Chunks(SubSeq(words, chunk_size + 1, Len(words)), chunk_size)

RECURSIVE Sum(_)
Sum(numbers) ==
    IF numbers = <<>> THEN 0 ELSE Head(numbers) + Sum(Tail(numbers))

\* prompts.rs:82-93: the prompts for a transcript, given chat_tokens
CleanPrompts(raw_transcript, title, channel_name, tokens) ==
    LET words == Split(raw_transcript, SP)
        chunks_necessary == tokens \div MAX_TOKENS_PER_INVOCATION + 1
        chunk_size == Len(words) \div chunks_necessary + 1
        groups == Chunks(words, chunk_size)
    IN  [i \in 1..Len(groups) |->
            clean_transcript_one_prompt(Join(groups[i], <<SP>>),
                                        title, channel_name)]

\* prompts.rs:66-74, 82-99: clean_transcript, given chat_tokens
CleanTranscriptFor(raw_transcript, title, channel_name, tokens) ==
    LET word_count == Len(Split(raw_transcript, SP))
        prompts == CleanPrompts(raw_transcript, title, channel_name, tokens)
    IN  IF word_count <= MinCleanWords
        THEN Err(<<"Transcript too short to clean up. (",
                   ToString(word_count), " words in transcript)">>)
        ELSE Ok([prompts |-> prompts,
                 total_tokens |->
                    Sum([i \in 1..Len(prompts) |->
                            count_tokens(NumTokens(prompts[i]))])])

\* prompts.rs:78-80: the candidate prompt and its chat_tokens
FirstTryTokens(raw_transcript, title, channel_name) ==
    count_tokens(NumTokens(
        clean_transcript_one_prompt(raw_transcript, title, channel_name)))

\* prompts.rs:61-100
clean_transcript(raw_transcript, title, channel_name) ==
    CleanTranscriptFor(raw_transcript, title, channel_name,
                       FirstTryTokens(raw_transcript, title, channel_name))

\* word i of the transcript of a given shape: empty, one or two letters
ShapedWord(i, shape) ==
    LET letter == IF i % 2 = 0 THEN "a" ELSE "b"
    IN  [k \in 1..((i + shape) % 3) |-> letter]

ShapedTranscript(n, shape) ==
    Join([i \in 1..n |-> ShapedWord(i, shape)], <<SP>>)

TranscriptShapes == 0..2

\* the tokens of one transcript word under the tokenizers tried
TokensPerWord == {1, 2500, 4700}

\* the tokens of the wording around the transcript
FramingTokens == {100}

\* values of chat_tokens tried besides the one count_tokens gives
Estimates == {0, 49999, 50000, 99999, 120000, 349999}

InitClean ==
    /\ \E n \in (MinCleanWords - 1)..MaxCleanWords, shape \in TranscriptShapes :
            arg_raw_transcript = ShapedTranscript(n, shape)
    /\ arg_title \in {None, Some(<<"T">>)}
    /\ arg_channel_name \in {None, Some(<<"C">>)}
    /\ framing_tokens \in FramingTokens
    /\ tokens_per_word \in TokensPerWord
    /\ used_estimate = 0
    /\ clean_result = None
    /\ qpc = "ready"
    /\ s = <<>>
    /\ max_characters_per_chunk = 0
    /\ chunks = <<>>
    /\ cpc = "idle"
    /\ IdleSummary

\* one call of clean_transcript
CleanTranscript ==
    /\ qpc = "ready"
    /\ used_estimate' =
            FirstTryTokens(arg_raw_transcript, arg_title, arg_channel_name)
    /\ clean_result' =
            clean_transcript(arg_raw_transcript, arg_title, arg_channel_name)
    /\ qpc' = "done"
    /\ UNCHANGED <<chunk_vars, summary_vars, arg_raw_transcript, arg_title,
                   arg_channel_name, framing_tokens, tokens_per_word>>

\* one call of clean_transcript in which count_tokens is left open: chat_tokens
\* is any of Estimates, or the tokens the tokenizer counts in the candidate
\* prompt
CleanTranscriptAnyEstimate ==
    /\ qpc = "ready"
    /\ \E tokens \in Estimates \cup
            {NumTokens(clean_transcript_one_prompt(
                arg_raw_transcript, arg_title, arg_channel_name))} :
        /\ used_estimate' = tokens
        /\ clean_result' = CleanTranscriptFor(arg_raw_transcript, arg_title,
                                              arg_channel_name, tokens)
    /\ qpc' = "done_any"
    /\ UNCHANGED <<chunk_vars, summary_vars, arg_raw_transcript, arg_title,
                   arg_channel_name, framing_tokens, tokens_per_word>>

NextClean == CleanTranscript \/ CleanTranscriptAnyEstimate

SpecClean == InitClean /\ [][NextClean]_vars

\* ------------------------------------------------ clean_transcript properties

\* the transcript fragments of the returned prompts, in order
Fragments ==
    [i \in 1..Len(clean_result.val.prompts) |->
        TranscriptOf(clean_result.val.prompts[i])]

\* the tokens the tokenizer counts in the single candidate prompt
CandidateTokens ==
    NumTokens(clean_transcript_one_prompt(
        arg_raw_transcript, arg_title, arg_channel_name))

\* C5: for a transcript of more than 20 words and any value of chat_tokens, the
\* transcript fragments of the returned prompts, joined in order with single
\* spaces, are exactly the transcript.
C5_WordsLossless ==
    (qpc \in {"done", "done_any"} /\ Len(Split(arg_raw_transcript, SP)) > 20) =>
        /\ clean_result.tag = "Ok"
        /\ Join(Fragments, <<SP>>) = arg_raw_transcript

\* C5 witness: a transcript with empty words, cut into three or more prompts.
C5_Witness ==
    /\ qpc = "done_any"
    /\ clean_result.tag = "Ok"
    /\ Len(Fragments) >= 3
    /\ <<>> \in {Split(arg_raw_transcript, SP)[i] :
                    i \in 1..Len(Split(arg_raw_transcript, SP))}

\* C6 as stated: no prompt clean_transcript returns holds more than 50,000
\* tokens.
C6_PromptsWithinBudget ==
    (qpc = "done" /\ clean_result.tag = "Ok") =>
        \A i \in 1..Len(clean_result.val.prompts) :
            NumTokens(clean_result.val.prompts[i]) <= 50000

\* C7 as stated: when the single candidate prompt holds more than 50,000 tokens,
\* clean_transcript returns floor(tokens / 50000) + 1 prompts, whose word groups
\* all have the same size.
C7_PartitionCount ==
    (qpc = "done" /\ clean_result.tag = "Ok" /\ CandidateTokens > 50000) =>
        /\ Len(Fragments) = CandidateTokens \div 50000 + 1
        /\ \A i, j \in 1..Len(Fragments) :
                Len(Split(Fragments[i], SP)) = Len(Split(Fragments[j], SP))

\* Were count_tokens the tokens of the candidate prompt, a returned prompt could
\* still hold more than 50,000 tokens: each prompt repeats the framing and takes
\* up to floor(words / N) + 1 words. TLC finds this violated.
BudgetKeptIfCounted ==
    (qpc = "done_any" /\ clean_result.tag = "Ok"
        /\ used_estimate = CandidateTokens) =>
        \A i \in 1..Len(clean_result.val.prompts) :
            NumTokens(clean_result.val.prompts[i]) <= 50000

\* For any chat_tokens over 50,000 the groups would be floor(chat_tokens / 50000)
\* + 1 many and of one size. TLC finds this violated: the groups are
\* ceil(words / (floor(words / N) + 1)) many, the last one shorter.
EvenPartitionForAnyEstimate ==
    (qpc = "done_any" /\ clean_result.tag = "Ok" /\ used_estimate > 50000) =>
        /\ Len(Fragments) = used_estimate \div 50000 + 1
        /\ \A i, j \in 1..Len(Fragments) :
                Len(Split(Fragments[i], SP)) = Len(Split(Fragments[j], SP))

\* For any chat_tokens the groups are at most floor(chat_tokens / 50000) + 1
\* many, and all but the last hold floor(words / N) + 1 words.
PartitionShape ==
    (qpc \in {"done", "done_any"} /\ clean_result.tag = "Ok") =>
        LET n == used_estimate \div 50000 + 1
            size == Len(Split(arg_raw_transcript, SP)) \div n + 1
        IN  /\ Len(Fragments) \in 1..n
            /\ \A i \in 1..Len(Fragments) :
                    IF i < Len(Fragments)
                    THEN Len(Split(Fragments[i], SP)) = size
                    ELSE Len(Split(Fragments[i], SP)) \in 1..size

\* ------------------------------------------------ summary request properties

\* str::split(' ').count() (prompts.rs:8): one more than the number of spaces
WordCount(text) == Cardinality({i \in 1..Len(text) : text[i] = SP}) + 1

\* the sleeps and chat attempts of the request, in order
ChatEvents == SelectSeq(events, LAMBDA e : e.kind \in {"chat_once", "sleep"})

CountEvents(kind) == Len(SelectSeq(events, LAMBDA e : e.kind = kind))

\* summarize has run on the fetched transcript
Summarized == prompt_tokens # 0

IsTooShortError(r) ==
    /\ r.tag = "Err"
    /\ r.val[1] = TooShortError(0)[1]

IsTooLongError(r) ==
    /\ r.tag = "Err"
    /\ r.val[1] = TooLongError(0)[1]

\* C1: when chat has returned and every attempt it made failed, it made exactly
\* two attempts, both with the request summarize built, with one sleep of 60
\* seconds between them, and returned the second attempt's error unchanged.
C1_TwoAttemptsThenError ==
    ( /\ pc = "done"
      /\ ChatAttempts # <<>>
      /\ \A i \in 1..Len(ChatAttempts) : ChatAttempts[i].outcome.tag = "Err" )
    =>
    /\ Len(ChatEvents) = 3
    /\ ChatEvents[1].kind = "chat_once"
    /\ ChatEvents[2].kind = "sleep"
    /\ ChatEvents[2].secs = 60
    /\ ChatEvents[3].kind = "chat_once"
    /\ ChatEvents[1].request = chat_api_request.val
    /\ ChatEvents[3].request = chat_api_request.val
    /\ result = ChatEvents[3].outcome

\* C1 witness: two failed attempts with different errors, the second one returned.
C1_Witness ==
    /\ pc = "done"
    /\ Len(ChatAttempts) = 2
    /\ ChatAttempts[1].outcome.tag = "Err"
    /\ ChatAttempts[2].outcome.tag = "Err"
    /\ ChatAttempts[1].outcome # ChatAttempts[2].outcome
    /\ result = ChatAttempts[2].outcome

\* C8 as stated: a request the tokenizer counts at more than 13,000 tokens is
\* refused as too long; one under 3,000 tokens goes to gpt-4 and one of 3,000 to
\* 13,000 tokens to gpt-3.5-turbo-16k.
C8_TierByTokenCount ==
    Summarized =>
        /\ prompt_tokens > 13000 =>
                (IsTooLongError(result) /\ chat_api_request = None)
        /\ prompt_tokens < 3000 =>
                (chat_api_request.tag = "Some"
                    /\ chat_api_request.val.model = "gpt-4")
        /\ prompt_tokens \in 3000..13000 =>
                (chat_api_request.tag = "Some"
                    /\ chat_api_request.val.model = "gpt-3.5-turbo-16k")

\* C9 as stated: a summary request whose transcript has 200 words or fewer ends
\* with the too-short error, and one with more words does not.
C9_TooShortRejected ==
    Summarized =>
        IF WordCount(transcript.val) <= 200
        THEN IsTooShortError(result) /\ chat_api_request = None
        ELSE ~IsTooShortError(result)

\* C10 as stated: a chat attempt is made only after both fetches succeeded and the
\* transcript passed the too-short (more than 200 words) and too-long (at most
\* 13,000 tokens) validation; a failed fetch ends the request with its error; no
\* fetch is made twice.
C10_ChecksBeforeChat ==
    /\ ChatAttempts # <<>> =>
            /\ info.tag = "Ok"
            /\ transcript.tag = "Ok"
            /\ WordCount(transcript.val) > 200
            /\ prompt_tokens <= 13000
    /\ info.tag = "Err" =>
            (pc = "done" /\ result = info /\ CountEvents("get_transcript") = 0
                /\ ChatAttempts = <<>>)
    /\ transcript.tag = "Err" =>
            (pc = "done" /\ result = transcript /\ ChatAttempts = <<>>)
    /\ CountEvents("get_video_info") <= 1
    /\ CountEvents("get_transcript") <= 1

\* The part of C10 that does not rest on the validation: every chat attempt comes
\* after one successful fetch of each kind and after summarize built the request,
\* and a failed fetch ends the request with its error.
FetchesBeforeChat ==
    /\ ChatAttempts # <<>> =>
            /\ info.tag = "Ok"
            /\ transcript.tag = "Ok"
            /\ chat_api_request.tag = "Some"
            /\ events[1].kind = "get_video_info"
            /\ events[2].kind = "get_transcript"
    /\ info.tag = "Err" =>
            (pc = "done" /\ result = info /\ CountEvents("get_transcript") = 0
                /\ ChatAttempts = <<>>)
    /\ transcript.tag = "Err" =>
            (pc = "done" /\ result = transcript /\ ChatAttempts = <<>>)
    /\ CountEvents("get_video_info") <= 1
    /\ CountEvents("get_transcript") <= 1

\* --------------------------------------------------------- chunker properties

\* the space-separated words of the trimmed lines of t
InputWords(t) ==
    LET lines == Split(t, NL)
    IN  UNION {{Split(Trim(lines[i]), SP)[j] :
                    j \in 1..Len(Split(Trim(lines[i]), SP))} : i \in 1..Len(lines)}

NonWhitespace(t) == SelectSeq(t, LAMBDA c : ~IsWhitespace(c))

\* the trimmed lines of t joined by a blank line, before any collapsing
JoinedParagraphs(t) == Concat(Paragraphs(t))

\* C2: with a positive budget every returned chunk has at most budget characters,
\* unless the chunk is one single word of the input that alone exceeds the budget.
C2_ChunkWithinBudget ==
    (cpc = "done" /\ max_characters_per_chunk > 0) =>
        \A i \in 1..Len(chunks) :
            \/ Len(chunks[i]) <= max_characters_per_chunk
            \/ /\ chunks[i] \in InputWords(s)
               /\ \A k \in 1..Len(chunks[i]) : ~IsWhitespace(chunks[i][k])

\* C2 witness: a text cut into several chunks, one within the budget and one an
\* oversized single word.
C2_Witness ==
    /\ cpc = "done"
    /\ max_characters_per_chunk > 0
    /\ \E i, j \in 1..Len(chunks) :
            /\ Len(chunks[i]) > max_characters_per_chunk
            /\ Len(chunks[j]) \in 1..max_characters_per_chunk

\* C3: the chunks concatenated in order hold exactly the non-whitespace characters
\* of the input, in order.
C3_ChunksLossless ==
    cpc = "done" => NonWhitespace(Concat(chunks)) = NonWhitespace(s)

\* C3 witness: a paragraph over the budget was split into words and the text came
\* back as several non-empty chunks.
C3_Witness ==
    /\ cpc = "done"
    /\ \E i \in 1..Len(Paragraphs(s)) :
            /\ Len(Paragraphs(s)[i]) > max_characters_per_chunk
            /\ Len(Split(Paragraphs(s)[i], SP)) >= 2
    /\ Cardinality({i \in 1..Len(chunks) : NonWhitespace(chunks[i]) # <<>>}) >= 2

\* C4 as stated: a text of at most budget characters comes back as exactly one
\* chunk, the trimmed, newline-normalized text.
C4_Original ==
    (cpc = "done" /\ Len(s) <= max_characters_per_chunk) =>
        chunks = <<Trim(CollapseNewlines(JoinedParagraphs(s)))>>

\* C4 amended: when the trimmed lines joined by a blank line have at most budget
\* characters, the result is exactly one chunk: that joined text with every run of
\* three or more newlines collapsed to two, not trimmed as a whole.
C4_SingleChunk ==
    (cpc = "done" /\ Len(JoinedParagraphs(s)) <= max_characters_per_chunk) =>
        chunks = <<CollapseNewlines(JoinedParagraphs(s))>>

\* C4 witness: a text of several lines that fits the budget exactly once joined,
\* and came back as one chunk.
C4_Witness ==
    /\ cpc = "done"
    /\ Len(Split(s, NL)) >= 2
    /\ NonWhitespace(s) # <<>>
    /\ Len(JoinedParagraphs(s)) = max_characters_per_chunk
    /\ Len(chunks) = 1

\* ------------------------------------------ properties of summarize_videos

\* the request for the video at place i of video_ids failed: get_video_summary
\* returned an error, or it panicked
Failed(i) ==
    \/ i <= Len(returned) /\ returned[i].tag = "Err"
    \/ i = Current /\ pc = "panicked"

\* an error message for the request at place i was handed to the channel
Reported(i) ==
    \E j \in 1..Len(sent) : sent[j].request = i /\ sent[j].kind = "say"

\* C11: every failure of a request ends in an error message sent to the
\* requester for that request, and no failure keeps the videos after it in the
\* message from being processed.
C11_FailuresReported ==
    /\ \A i \in 1..Len(video_ids) : Failed(i) => Reported(i)
    /\ pc = "panicked" => Current = Len(video_ids)

\* What holds of the failures get_video_summary returns as errors: each is said
\* in the channel with its text, once, and nothing else is sent for it.
ReturnedErrorsReported ==
    \A i \in 1..Len(returned) :
        returned[i].tag = "Err" =>
            \E j \in 1..Len(sent) :
                /\ sent[j].request = i
                /\ sent[j].kind = "say"
                /\ sent[j].text = SummaryError(returned[i].val)
                /\ \A k \in 1..Len(sent) : sent[k].request = i => k = j

\* ------------------------------------------------ properties of chat's retry

\* C12: chat makes at most two chat-completion attempts; a wait only follows a
\* failed first attempt and lasts 60 seconds; a second attempt only follows
\* that wait; and when the first attempt succeeds the request is over with its
\* response as the summary, with no wait and no second attempt.
C12_AtMostTwoAttempts ==
    /\ Len(ChatAttempts) <= 2
    /\ \A i \in 1..Len(ChatEvents) :
          /\ ChatEvents[i].kind = "sleep" =>
                /\ i = 2
                /\ ChatEvents[1].kind = "chat_once"
                /\ ChatEvents[1].outcome.tag = "Err"
                /\ ChatEvents[i].secs = 60
          /\ (ChatEvents[i].kind = "chat_once" /\ i > 1) =>
                /\ i = 3
                /\ ChatEvents[2].kind = "sleep"
    /\ (ChatAttempts # <<>> /\ ChatAttempts[1].outcome.tag = "Ok") =>
          /\ ChatEvents = <<ChatAttempts[1]>>
          /\ pc = "done"
          /\ result = Ok(<<ClipSummary(ChatAttempts[1].outcome.val), info.val>>)

\* C12 witness: the first attempt failed, chat slept 60 seconds, and the second
\* attempt's response was returned.
C12_Witness ==
    /\ pc = "done"
    /\ Len(ChatEvents) = 3
    /\ ChatEvents[1].outcome.tag = "Err"
    /\ ChatEvents[2].kind = "sleep"
    /\ ChatEvents[3].outcome.tag = "Ok"
    /\ result.tag = "Ok"
    /\ result.val[1] = ChatEvents[3].outcome.val

====
